---- MODULE Spec2Model ----
(***************************************************************************)
(* Control flow of the two HybridBrowserToolkit example scripts:           *)
(*   examples/toolkits/hybrid_browser_toolkit_detect_loading_example.py    *)
(*       (module level construction + async main)                          *)
(*   examples/toolkits/hybrid_browser_toolkit_file_upload_example.py       *)
(*       (demo_file_operations, demo_with_agent)                           *)
(* Every statement that can raise has a returning and a raising outcome.   *)
(* Exceptions are instances of Exception (the class main's handler names). *)
(* The toolkit and the agent live in the camel package, outside the two    *)
(* files; their effect on the session and the tool registry is modelled    *)
(* from the collaborator contract of the specification (sections 3, 6).    *)
(***************************************************************************)
EXTENDS Integers, Sequences, FiniteSets, TLC

\* Bound on the number of tool calls the model-driven agent makes in one step.
MaxAgentCalls == 2

VARIABLES
    script,      \* which entry point runs
    pc,          \* position of the single control flow
    step,        \* index of the next statement of the try body
    config,      \* the toolkit's configuration
    registered,  \* tool names registered with the ChatAgent
    session,     \* browser session: "none" (never opened), "open", "closed"
    calls,       \* log of toolkit / agent calls, in issue order
    fileExists,  \* the temporary upload file is on disk
    exc,         \* chain of exceptions currently propagating (oldest first)
    tryExc,      \* label of the exception raised inside the try block
    raised,      \* labels of all exceptions raised so far
    caught,      \* labels caught by the script's except clause (diagnostic printed)
    trace        \* labels whose traceback has been printed

vars == <<script, pc, step, config, registered, session, calls, fileExists,
          exc, tryExc, raised, caught, trace>>

Scripts == {"main", "demo_file_operations", "demo_with_agent"}

\* Capability set of the toolkit (specification, section 6).
ToolkitTools ==
    {"browser_open", "browser_close", "browser_visit_page",
     "browser_get_page_snapshot", "browser_click", "browser_type",
     "browser_enter", "browser_scroll", "browser_upload_file",
     "browser_download_file"}

\* enabled_tools=[...] argument of each HybridBrowserToolkit(...) call.
enabled_tools(s) ==
    CASE s = "main" ->
           {"browser_open", "browser_close", "browser_visit_page",
            "browser_click", "browser_type", "browser_enter",
            "browser_scroll", "browser_get_page_snapshot"}
      [] s = "demo_file_operations" ->
           {"browser_open", "browser_close", "browser_visit_page",
            "browser_get_page_snapshot", "browser_click",
            "browser_upload_file", "browser_download_file"}
      [] s = "demo_with_agent" ->
           {"browser_open", "browser_close", "browser_visit_page",
            "browser_get_page_snapshot", "browser_click", "browser_type",
            "browser_upload_file", "browser_download_file"}

\* Keyword arguments of each HybridBrowserToolkit(...) call; "default" = not passed.
ToolkitConfig(s) ==
    [headless            |-> "False",
     user_data_dir       |-> IF s = "main" THEN "User_Data" ELSE "default",
     enabled_tools       |-> enabled_tools(s),
     browser_log_to_file |-> IF s = "main" THEN "True" ELSE "default",
     stealth             |-> IF s = "main" THEN "True" ELSE "default"]

\* No toolkit instance exists yet.
NoConfig ==
    [headless |-> "unset", user_data_dir |-> "unset", enabled_tools |-> {},
     browser_log_to_file |-> "unset", stealth |-> "unset"]

\* toolkit.get_tools(): the enabled subset of the toolkit's capabilities.
get_tools(cfg) == {t \in ToolkitTools : t \in cfg.enabled_tools}

agent_tools_dropclose(cfg) == get_tools(cfg) \ {"browser_close"}

\* tools=[*web_toolkit.get_tools()] / tools=toolkit.get_tools()
agent_tools(cfg) == get_tools(cfg)

ToolEffect_toggle(op, s) ==
    CASE op = "browser_open"  -> "open"
      [] op = "browser_close" -> IF s = "closed" THEN "open" ELSE "closed"
      [] OTHER                -> s

\* Effect of a completed tool call on the browser session.
ToolEffect(op, s) ==
    CASE op = "browser_open"  -> "open"
      [] op = "browser_close" -> "closed"
      [] OTHER                -> s

\* Statements before the try block, in source order.
Prologue(s) ==
    CASE s = "main" -> <<"ModelFactory.create", "HybridBrowserToolkit", "ChatAgent">>
      [] s = "demo_file_operations" -> <<"NamedTemporaryFile", "HybridBrowserToolkit">>
      [] s = "demo_with_agent" -> <<"HybridBrowserToolkit", "ModelFactory.create", "ChatAgent">>

TryBody_swapped(s) ==
    CASE s = "main" -> <<"agent.astep", "print">>
      [] s = "demo_file_operations" ->
           <<"browser_open", "browser_get_page_snapshot", "browser_visit_page",
             "browser_visit_page", "browser_get_page_snapshot">>
      [] s = "demo_with_agent" -> <<"agent.step", "print">>

\* Statements of the try block that can raise, in source order.
TryBody(s) ==
    CASE s = "main" -> <<"agent.astep", "print">>
      [] s = "demo_file_operations" ->
           <<"browser_open", "browser_visit_page", "browser_get_page_snapshot",
             "browser_visit_page", "browser_get_page_snapshot">>
      [] s = "demo_with_agent" -> <<"agent.step", "print">>

AgentSteps == {"agent.astep", "agent.step"}

HasExcept_none(s) == FALSE

\* Only main has an except clause between try and finally.
HasExcept(s) == s = "main"

InFlight == {i \in DOMAIN calls : calls[i].st = "inflight"}

AgentCallCount == Cardinality({i \in DOMAIN calls : calls[i].by = "agent"})

Entry(op, by, st) == [op |-> op, by |-> by, st |-> st]

Range(f) == {f[i] : i \in DOMAIN f}

Init ==
    /\ script \in Scripts
    /\ pc = "prologue"
    /\ step = 1
    /\ config = NoConfig
    /\ registered = {}
    /\ session = "none"
    /\ calls = <<>>
    /\ fileExists = FALSE
    /\ exc = <<>>
    /\ tryExc = "none"
    /\ raised = {}
    /\ caught = {}
    /\ trace = {}

\* Position after the prologue statement at index step.
AfterPrologue(s, i) == IF i = Len(Prologue(s)) THEN "try" ELSE "prologue"

\* with tempfile.NamedTemporaryFile(mode='w', suffix='.txt', delete=False) as f: ...
CreateTempFile ==
    /\ pc = "prologue"
    /\ Prologue(script)[step] = "NamedTemporaryFile"
    /\ fileExists' = TRUE
    /\ pc' = AfterPrologue(script, step)
    /\ step' = IF pc' = "try" THEN 1 ELSE step + 1
    /\ UNCHANGED <<script, config, registered, session, calls, exc, tryExc,
                   raised, caught, trace>>

\* A prologue statement raises: nothing encloses it, the exception leaves the script.
PrologueRaise ==
    /\ pc = "prologue"
    /\ Prologue(script)[step] # "NamedTemporaryFile"
    /\ exc' = <<Prologue(script)[step]>>
    /\ raised' = raised \cup {Prologue(script)[step]}
    /\ pc' = "exit"
    /\ UNCHANGED <<script, step, config, registered, session, calls,
                   fileExists, tryExc, caught, trace>>

\* toolkit = HybridBrowserToolkit(headless=..., enabled_tools=[...], ...)
ConstructToolkit ==
    /\ pc = "prologue"
    /\ Prologue(script)[step] = "HybridBrowserToolkit"
    /\ config' = ToolkitConfig(script)
    /\ pc' = AfterPrologue(script, step)
    /\ step' = IF pc' = "try" THEN 1 ELSE step + 1
    /\ UNCHANGED <<script, registered, session, calls, fileExists, exc,
                   tryExc, raised, caught, trace>>

\* model = ModelFactory.create(...)
CreateModel ==
    /\ pc = "prologue"
    /\ Prologue(script)[step] = "ModelFactory.create"
    /\ pc' = AfterPrologue(script, step)
    /\ step' = IF pc' = "try" THEN 1 ELSE step + 1
    /\ UNCHANGED <<script, config, registered, session, calls, fileExists,
                   exc, tryExc, raised, caught, trace>>

\* agent = ChatAgent(model=..., tools=toolkit.get_tools(), ...)
CreateAgent ==
    /\ pc = "prologue"
    /\ Prologue(script)[step] = "ChatAgent"
    /\ registered' = agent_tools(config)
    /\ pc' = AfterPrologue(script, step)
    /\ step' = IF pc' = "try" THEN 1 ELSE step + 1
    /\ UNCHANGED <<script, config, session, calls, fileExists, exc, tryExc,
                   raised, caught, trace>>

\* Position after the try statement at index i has completed.
AfterTry(s, i) == IF i = Len(TryBody(s)) THEN "finally" ELSE "try"

AfterTryRaise_skipfinally(s) == IF HasExcept(s) THEN "except" ELSE "exit"

AfterTryRaise_retry(s) == "try"

\* Position after a statement of the try block raised.
AfterTryRaise(s) == IF HasExcept(s) THEN "except" ELSE "finally"

\* result = await toolkit.<op>(...) / response = await agent.astep(...): the call is issued.
IssueCall ==
    /\ pc = "try"
    /\ TryBody(script)[step] # "print"
    /\ calls' = Append(calls, Entry(TryBody(script)[step], "script", "inflight"))
    /\ pc' = "await"
    /\ UNCHANGED <<script, step, config, registered, session, fileExists,
                   exc, tryExc, raised, caught, trace>>

\* The awaited call returns; the prints that follow it run.
CallReturn ==
    /\ pc = "await"
    /\ \E i \in InFlight :
         /\ calls' = [calls EXCEPT ![i].st = "returned"]
         /\ session' = ToolEffect(calls[i].op, session)
    /\ pc' = AfterTry(script, step)
    /\ step' = step + 1
    /\ UNCHANGED <<script, config, registered, fileExists, exc, tryExc,
                   raised, caught, trace>>

\* The awaited call raises.
CallRaise ==
    /\ pc = "await"
    /\ \E i \in InFlight :
         /\ calls' = [calls EXCEPT ![i].st = "raised"]
         /\ exc' = <<calls[i].op>>
         /\ tryExc' = calls[i].op
         /\ raised' = raised \cup {calls[i].op}
    /\ pc' = AfterTryRaise(script)
    /\ UNCHANGED <<script, step, config, registered, session, fileExists,
                   caught, trace>>

\* During agent.step / agent.astep the agent invokes one of its registered tools.
AgentToolCall ==
    /\ pc = "await"
    /\ \E i \in InFlight : calls[i].op \in AgentSteps
    /\ AgentCallCount < MaxAgentCalls
    /\ \E t \in registered :
         /\ calls' = Append(calls, Entry(t, "agent", "returned"))
         /\ session' = ToolEffect(t, session)
    /\ UNCHANGED <<script, pc, step, config, registered, fileExists, exc,
                   tryExc, raised, caught, trace>>

Report_writesconfig ==
    /\ pc = "try"
    /\ TryBody(script)[step] = "print"
    /\ config' = [config EXCEPT !.enabled_tools = {}]
    /\ pc' = AfterTry(script, step)
    /\ step' = step + 1
    /\ UNCHANGED <<script, registered, session, calls, fileExists,
                   exc, tryExc, raised, caught, trace>>

\* print(response.msg.content) ... : the report after the agent step completes.
Report ==
    /\ pc = "try"
    /\ TryBody(script)[step] = "print"
    /\ pc' = AfterTry(script, step)
    /\ step' = step + 1
    /\ UNCHANGED <<script, config, registered, session, calls, fileExists,
                   exc, tryExc, raised, caught, trace>>

\* The report raises (response.msg / response.info['tool_calls'] missing).
ReportRaise ==
    /\ pc = "try"
    /\ TryBody(script)[step] = "print"
    /\ exc' = <<"print">>
    /\ tryExc' = "print"
    /\ raised' = raised \cup {"print"}
    /\ pc' = AfterTryRaise(script)
    /\ UNCHANGED <<script, step, config, registered, session, calls,
                   fileExists, caught, trace>>

\* except Exception as e: print(...); traceback.print_exc()
ExceptHandler ==
    /\ pc = "except"
    /\ caught' = caught \cup Range(exc)
    /\ trace' = trace \cup Range(exc)
    /\ exc' = <<>>
    /\ pc' = "finally"
    /\ UNCHANGED <<script, step, config, registered, session, calls,
                   fileExists, tryExc, raised>>

\* finally: await toolkit.browser_close() -- the call is issued.
FinallyClose ==
    /\ pc = "finally"
    /\ calls' = Append(calls, Entry("browser_close", "script", "inflight"))
    /\ pc' = "closing"
    /\ UNCHANGED <<script, step, config, registered, session, fileExists,
                   exc, tryExc, raised, caught, trace>>

\* Position after browser_close returned in the finally block.
AfterClose(s) == IF s = "demo_file_operations" THEN "remove" ELSE "exit"

AfterCloseRaise_remove(s) == IF s = "demo_file_operations" THEN "remove" ELSE "exit"

\* Position after browser_close raised in the finally block.
AfterCloseRaise(s) == "exit"

\* browser_close returns.
CloseReturn ==
    /\ pc = "closing"
    /\ \E i \in InFlight :
         /\ calls' = [calls EXCEPT ![i].st = "returned"]
         /\ session' = ToolEffect(calls[i].op, session)
    /\ pc' = AfterClose(script)
    /\ UNCHANGED <<script, step, config, registered, fileExists, exc,
                   tryExc, raised, caught, trace>>

\* browser_close raises: the rest of the finally block is skipped.
CloseRaise ==
    /\ pc = "closing"
    /\ \E i \in InFlight :
         /\ calls' = [calls EXCEPT ![i].st = "raised"]
         /\ session' = ToolEffect(calls[i].op, session)
    /\ exc' = Append(exc, "browser_close")
    /\ raised' = raised \cup {"browser_close"}
    /\ pc' = AfterCloseRaise(script)
    /\ UNCHANGED <<script, step, config, registered, fileExists, tryExc,
                   caught, trace>>

\* if os.path.exists(test_file_path): os.remove(test_file_path)
RemoveTestFile ==
    /\ pc = "remove"
    /\ fileExists' = FALSE
    /\ pc' = "exit"
    /\ UNCHANGED <<script, step, config, registered, session, calls, exc,
                   tryExc, raised, caught, trace>>

\* asyncio.run(...) returns or re-raises; the interpreter prints the traceback
\* of an uncaught exception together with its context chain.
Exit ==
    /\ pc = "exit"
    /\ trace' = trace \cup Range(exc)
    /\ pc' = "done"
    /\ UNCHANGED <<script, step, config, registered, session, calls,
                   fileExists, exc, tryExc, raised, caught>>

Next ==
    \/ CreateTempFile
    \/ PrologueRaise
    \/ ConstructToolkit
    \/ CreateModel
    \/ CreateAgent
    \/ IssueCall
    \/ CallReturn
    \/ CallRaise
    \/ AgentToolCall
    \/ Report
    \/ ReportRaise
    \/ ExceptHandler
    \/ FinallyClose
    \/ CloseReturn
    \/ CloseRaise
    \/ RemoveTestFile
    \/ Exit

Spec == Init /\ [][Next]_vars

(***************************************************************************)
(* Properties                                                              *)
(***************************************************************************)

PrologueCompleted == pc # "prologue" /\ raised \cap Range(Prologue(script)) = {}

Closes(by) ==
    Cardinality({i \in DOMAIN calls :
                    calls[i].op = "browser_close" /\ calls[i].by \in by})

CompletedCloses ==
    Cardinality({i \in DOMAIN calls :
                    calls[i].op = "browser_close" /\ calls[i].st # "inflight"})

Ops == [i \in DOMAIN calls |-> calls[i].op]

\* C1 (as stated): by the time any invocation ends, browser_close has been
\* called exactly once, whichever step failed and whoever called it.
C1_ExactlyOneClose ==
    pc = "done" => Closes({"script", "agent"}) = 1

\* C1 (amended): the cleanup block's own browser_close call is issued at most
\* once, and by the end of the invocation exactly once when the statements
\* before the try block completed and not at all when one of them raised.
C1_CleanupCloseOnce ==
    /\ Closes({"script"}) <= 1
    /\ pc = "done" =>
         Closes({"script"}) = IF PrologueCompleted THEN 1 ELSE 0

C1_Witness ==
    /\ pc = "done"
    /\ tryExc # "none"
    /\ Closes({"script"}) = 1
    /\ Closes({"agent"}) >= 1

\* C2: in demo_file_operations the temporary file is on disk right after its
\* creation and is gone once the demo has ended, on every exit path.
C2_TempFileRemoved ==
    script = "demo_file_operations" =>
        /\ (pc = "prologue" /\ step = 2) => fileExists
        /\ pc = "done" => ~fileExists

\* C3 (as stated): in every script an exception raised inside the try block is
\* caught with a diagnostic, the cleanup runs, and it does not propagate out.
C3_AllCaught ==
    (pc = "done" /\ tryExc # "none") =>
        /\ tryExc \in caught
        /\ Closes({"script"}) = 1
        /\ tryExc \notin Range(exc)

\* C3 (amended): the cleanup block runs after every exception raised inside
\* the try block; main catches it, prints the diagnostic before the cleanup
\* and lets nothing from the try block out, while demo_file_operations and
\* demo_with_agent catch nothing and let it propagate after the cleanup.
C3_CaughtOnlyInMain ==
    /\ pc = "except" => (script = "main" /\ Closes({"script"}) = 0)
    /\ (pc = "done" /\ tryExc # "none") =>
         /\ Closes({"script"}) = 1
         /\ IF script = "main"
            THEN tryExc \in caught /\ tryExc \in trace /\ tryExc \notin Range(exc)
            ELSE tryExc \notin caught /\ tryExc \in Range(exc)

C3_Witness ==
    /\ pc = "done"
    /\ script = "main"
    /\ tryExc = "agent.astep"
    /\ tryExc \in caught

FixedOrder ==
    <<"browser_open", "browser_visit_page", "browser_get_page_snapshot",
      "browser_visit_page", "browser_get_page_snapshot", "browser_close">>

\* C4: demo_file_operations issues its toolkit calls one at a time in the
\* order open, visit, snapshot, visit, snapshot, close: at most one call is in
\* flight, a call is issued only after the previous one completed, the first
\* call is browser_open and the last call of a run is browser_close.
C4_SequentialFixedOrder ==
    script = "demo_file_operations" =>
        /\ Cardinality(InFlight) <= 1
        /\ \A i \in InFlight : i = Len(calls)
        /\ \E k \in 0..5 :
             \/ Ops = SubSeq(FixedOrder, 1, k)
             \/ k >= 1 /\ Ops = SubSeq(FixedOrder, 1, k) \o <<"browser_close">>
        /\ calls # <<>> => calls[1].op = "browser_open"
        /\ (pc = "done" /\ calls # <<>>) => calls[Len(calls)].op = "browser_close"
        /\ (pc = "done" /\ tryExc = "none" /\ PrologueCompleted) => Ops = FixedOrder

C4_Witness ==
    /\ script = "demo_file_operations"
    /\ pc = "done"
    /\ Ops = FixedOrder
    /\ \A i \in DOMAIN calls : calls[i].st = "returned"

C8_NoRetry ==
    /\ [][tryExc # "none" =>
            \/ Len(calls') = Len(calls)
            \/ /\ calls' = Append(calls, Entry("browser_close", "script", "inflight"))
               /\ Closes({"script"}) = 0]_vars
    /\ [](pc = "done" => raised \subseteq trace)

C8_Witness ==
    /\ script = "demo_file_operations"
    /\ pc = "done"
    /\ tryExc = "browser_visit_page"
    /\ Ops = <<"browser_open", "browser_visit_page", "browser_close">>
    /\ tryExc \in trace

C10_ConfigImmutable ==
    /\ [](config \in {NoConfig, ToolkitConfig(script)})
    /\ [][config # NoConfig => config' = config]_vars
    /\ [](PrologueCompleted => config = ToolkitConfig(script))

C10_Witness ==
    /\ pc = "done"
    /\ script = "main"
    /\ tryExc = "none"
    /\ config = ToolkitConfig("main")
    /\ \E i \in DOMAIN calls : calls[i].by = "agent"

====
